---- MODULE Spec2Model ----
(***************************************************************************)
(* Launch detection and responsive layout of the slingshot game            *)
(* (src/game.js: the viewport-adaptive variant, lines 1-627, and the       *)
(* fixed-canvas variant, lines 628-779).                                   *)
(*                                                                         *)
(* Lengths are pixels.  The viewports of the model are chosen so that      *)
(* every derived length (20 %, 70 %, 80 % of a side, 45*scale*1.25 and its *)
(* half) is a whole number of pixels, so the integer arithmetic below is   *)
(* the arithmetic of the source.  `scale` is kept as its numerator over    *)
(* ScaleDen.  Velocities are in 1/1000 pixel per step: the factors 0.002   *)
(* and 0.3 of the source are the 2 and 300 of the model.                   *)
(*                                                                         *)
(* Each handler of the source is one action.  The physics engine and the   *)
(* mouse constraint of the library are the environment: the engine moves   *)
(* the ball, the mouse constraint keeps mouseConstraint.body and           *)
(* constraint.bodyB and triggers startdrag / mousemove / enddrag.          *)
(*                                                                         *)
(* Spec is the game: every handler, with handleResize run at any moment    *)
(* for any of the Viewports.  SpecResize is the scheduling of handleResize *)
(* by the resize and orientationchange listeners and their timers, for     *)
(* the WindowSizes.  The placement of blocks with the mouse in edit mode   *)
(* (lines 603-624) is not part of the model.                               *)
(* SpecFixed is the fixed-canvas variant of the game (lines 628-779).      *)
(***************************************************************************)
EXTENDS Integers, Sequences, FiniteSets

VARIABLES
    gameDimensions,   \* let gameDimensions (line 50)
    ground,           \* position of the ground body (line 53)
    ball,             \* identity of the body `ball` refers to (line 65)
    sling,            \* identity of the constraint `sling` refers to (line 78)
    ballPos,          \* ball.position
    slingPointA,      \* sling.pointA
    velocity,         \* last argument of Body.setVelocity(ball, .) for this ball
    blocks,           \* the blocks array (line 90): position and world membership
    worldBalls,       \* projectile bodies in the world
    worldSlings,      \* sling constraints in the world
    mcBody,           \* mouseConstraint.body
    mcBodyB,          \* mouseConstraint.constraint.bodyB
    ballLaunched,     \* let ballLaunched (line 161)
    initialPull,      \* let initialPull (line 162)
    isEditMode,       \* let isEditMode (line 406)
    nextId,           \* identity the next created ball/sling pair receives
    launchCount,      \* launch transitions executed on the current ball
    launchedBy,       \* the handler that launched the current ball
    lastCall,         \* resetGame or handleResize(w, h), if the last step ended in it
    resizeTimeout,    \* let resizeTimeout (line 388): 0 or the last timer id
    timers,           \* debounce timers that are set and neither cleared nor fired
    settleTimers,     \* pending 500 ms timers of orientationchange (line 378)
    reapplyTimers,    \* pending 100 ms timers of orientationchange (line 381)
    resizeBursts,     \* resize notifications that arrived with no timer pending
    resizeRuns,       \* handleResize executions started by the debounce timer
    removeTimers      \* pending 100 ms timers of the fixed-canvas enddrag (line 736)

vars == <<gameDimensions, ground, ball, sling, ballPos, slingPointA, velocity,
          blocks, worldBalls, worldSlings, mcBody, mcBodyB, ballLaunched,
          initialPull, isEditMode, nextId, launchCount, launchedBy,
          lastCall, resizeTimeout, timers, settleTimers, reapplyTimers,
          resizeBursts, resizeRuns, removeTimers>>

\* the state of the game proper
game == <<gameDimensions, ground, ball, sling, ballPos, slingPointA, velocity,
          blocks, worldBalls, worldSlings, mcBody, mcBodyB, ballLaunched,
          initialPull, isEditMode, nextId, launchCount, launchedBy>>

\* the state of the resize and orientationchange listeners (lines 375-394)
schedule == <<resizeTimeout, timers, settleTimers, reapplyTimers,
              resizeBursts, resizeRuns>>

----------------------------------------------------------------------------
(* Bounds of the model *)

\* resetGame is run while fewer than MaxBalls balls have been created.
MaxBalls == 3

\* The window sizes the browser reports: <<innerWidth, viewport height>>.
Viewports == { <<1280, 640>>, <<2560, 1280>> }

\* Displacements from the anchor at which the physics engine may put a ball
\* that is held or hangs in the sling.  Their lengths are 50, 50, 50 and 250.
Offsets == { [x |-> -30,  y |-> 40],
             [x |-> 30,   y |-> 40],
             [x |-> 0,    y |-> 50],
             [x |-> -150, y |-> -200] }

\* Displacements from the anchor at which a ball in flight may be found.
FlightOffsets == { [x |-> 240, y |-> -180] }

\* The resize listener runs while fewer than MaxResizeEvents resize
\* notifications have been delivered.
MaxResizeEvents == 3

\* An orientationchange is delivered while fewer than MaxOrientationTimers of
\* its timers are pending.
MaxOrientationTimers == 2

\* The window sizes a timer may find when it fires: the Viewports, and a
\* window whose width is reported as 0.
WindowSizes == Viewports \cup { <<0, 640>> }

----------------------------------------------------------------------------
(* Values *)

ScaleDen == 2400      \* scale = min(w/800, h/600) = min(3w, 4h) / 2400

NullBody == 0         \* null as a body reference
BlockBody == MaxBalls + 1   \* any body of the world that is no projectile

\* values of lastCall
NoCall == [op |-> "other", w |-> 0, h |-> 0]
ResetCall == [op |-> "resetGame", w |-> 0, h |-> 0]
ResizeCall(w, h) == [op |-> "handleResize", w |-> w, h |-> h]

NullPull == [set |-> FALSE, x |-> 0, y |-> 0]     \* initialPull = null
NoVelocity == [set |-> FALSE, x |-> 0, y |-> 0]   \* setVelocity never called

Min(a, b) == IF a <= b THEN a ELSE b

\* Math.sign
Sign(n) == IF n > 0 THEN 1 ELSE IF n < 0 THEN -1 ELSE 0

\* the largest r in lo..hi with r * r <= n
RECURSIVE SqrtIn(_, _, _)
SqrtIn(n, lo, hi) ==
    IF lo >= hi
    THEN lo
    ELSE LET mid == (lo + hi + 1) \div 2
         IN  IF mid * mid <= n THEN SqrtIn(n, mid, hi) ELSE SqrtIn(n, lo, mid - 1)

\* Math.sqrt (line 200); exact on the perfect squares the Offsets produce
Sqrt(n) == SqrtIn(n, 0, 1024)

\* getGameDimensions (lines 36-48) for window size <<w, h>>
getGameDimensions(w, h) ==
    [ width      |-> w,
      height     |-> h,
      scale      |-> Min(w * 3, h * 4),
      baseHeight |-> h - (h * 2) \div 10,
      blockBaseX |-> (w * 7) \div 10,
      slingX     |-> (w * 2) \div 10 ]

\* the anchor both launch handlers, resetGame and handleResize read
Anchor(gd) == [x |-> gd.slingX, y |-> gd.baseHeight]

\* position of the ground body (lines 53-56, 317-320)
GroundAt(gd) == [x |-> gd.width \div 2, y |-> gd.height - 10, width |-> gd.width]

----------------------------------------------------------------------------
(* The block formation *)

\* const blockSize = 45 * gameDimensions.scale (lines 95, 344)
BlockSize(gd) == (45 * gd.scale) \div ScaleDen

\* const spacing = blockSize * 1.25 (lines 96, 345)
Spacing(gd) == (BlockSize(gd) * 5) \div 4

\* mutant: the rows are not staggered by half a spacing
NewBlockNoStagger(gd, i, j, inWorld) ==
    [ x       |-> gd.blockBaseX + j * Spacing(gd),
      y       |-> gd.baseHeight - i * Spacing(gd),
      color   |-> i,
      inWorld |-> inWorld ]

\* Bodies.rectangle(...) of createBlocks (lines 102-110) for loop indices i, j
NewBlock(gd, i, j, inWorld) ==
    [ x       |-> gd.blockBaseX + j * Spacing(gd) + i * (Spacing(gd) \div 2),
      y       |-> gd.baseHeight - i * Spacing(gd),
      color   |-> i,
      inWorld |-> inWorld ]

\* the inner loop of createBlocks (line 101): the blocks pushed for row i
CreateRow(gd, i, inWorld) ==
    [ k \in 1..(4 - i) |-> NewBlock(gd, i, k - 1, inWorld) ]

\* createBlocks (lines 94-114): pushes rows i = from..3 onto bs.  Nothing in
\* createBlocks adds a block to the world; inWorld tells whether the caller does.
RECURSIVE createBlocks(_, _, _, _)
createBlocks(gd, bs, from, inWorld) ==
    IF from < 4
    THEN createBlocks(gd, bs \o CreateRow(gd, from, inWorld), from + 1, inWorld)
    ELSE bs

\* const row = Math.floor(index / 4) (line 346), index counted from 0
ResizeRow(index) == index \div 4

\* const col = index % (4 - row) (line 347)
ResizeCol(index) == index % (4 - ResizeRow(index))

\* mutant: the block is moved by the computed offset from where it is
ResizeBlockRelative(gd, index, b) ==
    [ b EXCEPT
        !.x = b.x + ResizeCol(index) * Spacing(gd)
                + ResizeRow(index) * (Spacing(gd) \div 2),
        !.y = b.y - ResizeRow(index) * Spacing(gd) ]

\* Body.setPosition(block, ...) of handleResize (lines 349-352)
ResizeBlock(gd, index, b) ==
    [ b EXCEPT
        !.x = gd.blockBaseX + ResizeCol(index) * Spacing(gd)
                + ResizeRow(index) * (Spacing(gd) \div 2),
        !.y = gd.baseHeight - ResizeRow(index) * Spacing(gd) ]

\* blocks.forEach of handleResize (lines 343-353)
ResizeBlocks(gd, bs) ==
    [ k \in 1..Len(bs) |-> ResizeBlock(gd, k - 1, bs[k]) ]

----------------------------------------------------------------------------
(* The launch law *)

\* mutant: the vertical sign flip releases too
ReleaseConditionEitherAxis(ip, cp) ==
    ip.set /\ ((ip.x /= 0 /\ ip.x /= cp.x) \/ (ip.y /= 0 /\ ip.y /= cp.y))

\* mutant: a captured horizontal sign of 0 is not excluded
ReleaseConditionNoZeroTest(ip, cp) == ip.set /\ ip.x /= cp.x

\* the test of line 191 on the captured and the current pull sign
ReleaseCondition(ip, cp) == ip.set /\ (ip.x /= 0 /\ ip.x /= cp.x)

\* the sign pair of lines 179-182 and 186-189
PullSign(pos, gd) ==
    [ set |-> TRUE,
      x   |-> Sign(pos.x - gd.slingX),
      y   |-> Sign(pos.y - gd.baseHeight) ]

\* the velocity of the overshoot path (lines 194-207)
OvershootVelocity(pos, gd) ==
    LET pullDistance == [x |-> pos.x - gd.slingX, y |-> pos.y - gd.baseHeight]
        stretchDistance == Sqrt(pullDistance.x * pullDistance.x
                                + pullDistance.y * pullDistance.y)
        scaleFactor == Min(stretchDistance * 2, 300)
    IN  [ set |-> TRUE,
          x   |-> (0 - pullDistance.x) * scaleFactor,
          y   |-> (0 - pullDistance.y) * scaleFactor ]

\* mutant: the scale factor is not capped
ReleaseVelocityUncapped(pos, gd) ==
    LET pullDistance == [x |-> pos.x - gd.slingX, y |-> pos.y - gd.baseHeight]
        stretchDistance == Sqrt(pullDistance.x * pullDistance.x
                                + pullDistance.y * pullDistance.y)
        scaleFactor == stretchDistance * 2
    IN  [ set |-> TRUE,
          x   |-> (0 - pullDistance.x) * scaleFactor,
          y   |-> (0 - pullDistance.y) * scaleFactor ]

\* mutant: the velocity points along the pull instead of against it
ReleaseVelocityAlongPull(pos, gd) ==
    LET pullDistance == [x |-> pos.x - gd.slingX, y |-> pos.y - gd.baseHeight]
        stretchDistance == Sqrt(pullDistance.x * pullDistance.x
                                + pullDistance.y * pullDistance.y)
        scaleFactor == Min(stretchDistance * 2, 300)
    IN  [ set |-> TRUE,
          x   |-> pullDistance.x * scaleFactor,
          y   |-> pullDistance.y * scaleFactor ]

\* the velocity of the explicit-release path (lines 222-235)
ReleaseVelocity(pos, gd) ==
    LET anchorX == gd.slingX
        anchorY == gd.baseHeight
        pullDistance == [x |-> pos.x - anchorX, y |-> pos.y - anchorY]
        stretchDistance == Sqrt(pullDistance.x * pullDistance.x
                                + pullDistance.y * pullDistance.y)
        scaleFactor == Min(stretchDistance * 2, 300)
    IN  [ set |-> TRUE,
          x   |-> (0 - pullDistance.x) * scaleFactor,
          y   |-> (0 - pullDistance.y) * scaleFactor ]

\* mutant: the identity of the held body is not tested
MouseMoveGuardNoIdentity == ~ballLaunched

\* the guard of the mousemove handler (line 173)
MouseMoveGuard == ~ballLaunched /\ mcBody = ball

\* mutant: the launched flag is not tested
EndDragGuardNoFlag(body) == body = ball

\* the guard of the enddrag handler (line 218)
EndDragGuard(body) == body = ball /\ ~ballLaunched

\* mutant: the startdrag handler never recognises the ball
StartDragGuardNever(body) == FALSE

\* the guard of the startdrag handler (line 166)
StartDragGuard(body) == body = ball

\* mutant: the launched flag is not tested
ResizeBallGuardAlways == TRUE

\* mutant: the ball and the sling are never moved
ResizeBallGuardNever == FALSE

\* the guard of the ball and sling update of handleResize (line 329);
\* `ball` and `sling` always refer to an object
ResizeBallGuard == ~ballLaunched

----------------------------------------------------------------------------
(* Initial state: lines 50-162 and 406 *)

InitialViewport == <<1280, 640>>

Init ==
    /\ gameDimensions = getGameDimensions(InitialViewport[1], InitialViewport[2])
    /\ ground = GroundAt(gameDimensions)
    /\ ball = 1
    /\ sling = 1
    /\ ballPos = Anchor(gameDimensions)
    /\ slingPointA = Anchor(gameDimensions)
    /\ velocity = NoVelocity
    /\ blocks = createBlocks(gameDimensions, <<>>, 0, TRUE)
    /\ worldBalls = {1}
    /\ worldSlings = {1}
    /\ mcBody = NullBody
    /\ mcBodyB = NullBody
    /\ ballLaunched = FALSE
    /\ initialPull = NullPull
    /\ isEditMode = FALSE
    /\ nextId = 2
    /\ launchCount = 0
    /\ launchedBy = "none"
    /\ lastCall = NoCall
    /\ resizeTimeout = 0
    /\ timers = {}
    /\ settleTimers = 0
    /\ reapplyTimers = 0
    /\ resizeBursts = 0
    /\ resizeRuns = 0
    /\ removeTimers = 0

\* the bodies an input event can name: every ball created so far, or a block
KnownBodies == (1..(nextId - 1)) \cup {BlockBody}

----------------------------------------------------------------------------
(* Environment: the physics engine moves the current ball while it is in   *)
(* the world: near the anchor while the sling holds it, away from it once  *)
(* it is launched.                                                         *)

\* where the engine may put the ball
Reach == IF ballLaunched THEN FlightOffsets ELSE Offsets

Tick(d) ==
    /\ ball \in worldBalls
    /\ d \in Reach
    /\ ballPos' = [x |-> gameDimensions.slingX + d.x,
                   y |-> gameDimensions.baseHeight + d.y]
    /\ ballPos' /= ballPos
    /\ UNCHANGED <<gameDimensions, ground, ball, sling, slingPointA, velocity,
                   blocks, worldBalls, worldSlings, mcBody, mcBodyB,
                   ballLaunched, initialPull, isEditMode, nextId, launchCount,
                   launchedBy>>
    /\ lastCall' = NoCall
    /\ UNCHANGED schedule
    /\ UNCHANGED removeTimers

----------------------------------------------------------------------------
(* startdrag (lines 165-169).  The mouse constraint picks a body up only   *)
(* while it holds none; it sets mouseConstraint.body and constraint.bodyB  *)
(* to the body and then triggers the event.  The model lets the event name *)
(* any body, a replaced ball included.                                     *)

StartDrag(body) ==
    /\ body \in KnownBodies
    /\ mcBodyB = NullBody
    /\ mcBody' = body
    /\ mcBodyB' = body
    /\ initialPull' = IF StartDragGuard(body) THEN NullPull ELSE initialPull
    /\ UNCHANGED <<gameDimensions, ground, ball, sling, ballPos, slingPointA,
                   velocity, blocks, worldBalls, worldSlings, ballLaunched,
                   isEditMode, nextId, launchCount, launchedBy>>
    /\ lastCall' = NoCall
    /\ UNCHANGED schedule
    /\ UNCHANGED removeTimers

----------------------------------------------------------------------------
(* mousemove (lines 172-214) *)

\* the slings in the world after World.remove(world, sling) of line 210
OvershootSlings == worldSlings \ {sling}

MouseMove ==
    LET captured == IF ~initialPull.set
                    THEN PullSign(ballPos, gameDimensions)
                    ELSE initialPull
        currentPull == PullSign(ballPos, gameDimensions)
    IN
    /\ IF MouseMoveGuard
       THEN /\ initialPull' = captured
            /\ IF ReleaseCondition(captured, currentPull)
               THEN /\ ballLaunched' = TRUE
                    /\ velocity' = OvershootVelocity(ballPos, gameDimensions)
                    /\ worldSlings' = OvershootSlings
                    /\ mcBodyB' = NullBody
                    /\ launchCount' = launchCount + 1
                    /\ launchedBy' = "overshoot"
               ELSE UNCHANGED <<ballLaunched, velocity, worldSlings, mcBodyB,
                                launchCount, launchedBy>>
       ELSE UNCHANGED <<initialPull, ballLaunched, velocity, worldSlings,
                        mcBodyB, launchCount, launchedBy>>
    /\ UNCHANGED <<gameDimensions, ground, ball, sling, ballPos, slingPointA,
                   blocks, worldBalls, mcBody, isEditMode, nextId>>
    /\ lastCall' = NoCall
    /\ UNCHANGED schedule
    /\ UNCHANGED removeTimers

----------------------------------------------------------------------------
(* enddrag (lines 217-240).  When the mouse button goes up the mouse       *)
(* constraint clears mouseConstraint.body and constraint.bodyB and, if     *)
(* mouseConstraint.body was set, triggers enddrag with that body.          *)

\* mutant: the removal of the sling is deferred past the handler
ReleaseSlingsDeferred == worldSlings

\* the slings in the world after World.remove(world, sling) of line 238
ReleaseSlings == worldSlings \ {sling}

MouseUp ==
    /\ mcBody /= NullBody \/ mcBodyB /= NullBody
    /\ mcBody' = NullBody
    /\ mcBodyB' = NullBody
    /\ IF mcBody /= NullBody /\ EndDragGuard(mcBody)
       THEN /\ ballLaunched' = TRUE
            /\ velocity' = ReleaseVelocity(ballPos, gameDimensions)
            /\ worldSlings' = ReleaseSlings
            /\ launchCount' = launchCount + 1
            /\ launchedBy' = "release"
       ELSE UNCHANGED <<ballLaunched, velocity, worldSlings, launchCount,
                        launchedBy>>
    /\ UNCHANGED <<gameDimensions, ground, ball, sling, ballPos, slingPointA,
                   blocks, worldBalls, initialPull, isEditMode, nextId>>
    /\ lastCall' = NoCall
    /\ UNCHANGED schedule
    /\ UNCHANGED removeTimers

----------------------------------------------------------------------------
(* resetGame (lines 243-286), with isEditMode as the caller left it *)

\* the formation after lines 248-250
ResetBlocks(editMode) ==
    IF ~editMode /\ Len(blocks) = 0
    THEN createBlocks(gameDimensions, blocks, 0, FALSE)
    ELSE blocks

\* the slings in the world after resetGame (line 278 adds newSling)
ResetSlings(newSling) == worldSlings \cup {newSling}

\* mutant: the old ball is not removed
ResetBallsKeepOld(newBall) == worldBalls \cup {newBall}

\* the projectiles in the world after resetGame (lines 245 and 278)
ResetBalls(newBall) == (worldBalls \ {ball}) \cup {newBall}

resetGame(editMode) ==
    /\ nextId <= MaxBalls
    /\ worldBalls' = ResetBalls(nextId)
    /\ blocks' = ResetBlocks(editMode)
    /\ worldSlings' = ResetSlings(nextId)
    /\ ballPos' = Anchor(gameDimensions)
    /\ slingPointA' = Anchor(gameDimensions)
    /\ velocity' = NoVelocity
    /\ ballLaunched' = FALSE
    /\ initialPull' = NullPull
    /\ mcBody' = NullBody
    /\ ball' = nextId
    /\ sling' = nextId
    /\ nextId' = nextId + 1
    /\ launchCount' = 0
    /\ launchedBy' = "none"
    /\ lastCall' = ResetCall
    /\ UNCHANGED <<gameDimensions, ground, mcBodyB>>
    /\ UNCHANGED schedule
    /\ UNCHANGED removeTimers

\* the 'r' key and the reset button (lines 289-296)
ResetGame ==
    /\ resetGame(isEditMode)
    /\ UNCHANGED isEditMode

----------------------------------------------------------------------------
(* handleResize (lines 299-373) for the window size <<w, h>> *)

HandleResize(w, h) ==
    LET gd == getGameDimensions(w, h) IN
    /\ gameDimensions' = gd
    /\ ground' = GroundAt(gd)
    /\ IF ResizeBallGuard
       THEN /\ ballPos' = Anchor(gd)
            /\ slingPointA' = Anchor(gd)
       ELSE UNCHANGED <<ballPos, slingPointA>>
    /\ blocks' = ResizeBlocks(gd, blocks)
    /\ UNCHANGED <<ball, sling, velocity, worldBalls, worldSlings, mcBody,
                   mcBodyB, ballLaunched, initialPull, isEditMode, nextId,
                   launchCount, launchedBy>>
    /\ lastCall' = ResizeCall(w, h)
    /\ UNCHANGED removeTimers

----------------------------------------------------------------------------
(* toggleEditMode (lines 582-600).  The edit button is shown outside edit  *)
(* mode only and the Done button in edit mode only (lines 588-590).        *)

EnterEditMode ==
    /\ ~isEditMode
    /\ isEditMode' = TRUE
    /\ worldBalls' = IF ~ballLaunched THEN worldBalls \ {ball} ELSE worldBalls
    /\ worldSlings' = worldSlings \ {sling}
    /\ UNCHANGED <<gameDimensions, ground, ball, sling, ballPos, slingPointA,
                   velocity, blocks, mcBody, mcBodyB, ballLaunched,
                   initialPull, nextId, launchCount, launchedBy>>
    /\ lastCall' = NoCall
    /\ UNCHANGED schedule
    /\ UNCHANGED removeTimers

ExitEditMode ==
    /\ isEditMode
    /\ isEditMode' = FALSE
    /\ resetGame(FALSE)

\* the Clear All button of the edit panel (lines 554-557)
ClearAll ==
    /\ isEditMode
    /\ blocks' = <<>>
    /\ UNCHANGED <<gameDimensions, ground, ball, sling, ballPos, slingPointA,
                   velocity, worldBalls, worldSlings, mcBody, mcBodyB,
                   ballLaunched, initialPull, isEditMode, nextId, launchCount,
                   launchedBy>>
    /\ lastCall' = NoCall
    /\ UNCHANGED schedule
    /\ UNCHANGED removeTimers

----------------------------------------------------------------------------

Next ==
    \/ \E d \in Offsets \cup FlightOffsets : Tick(d)
    \/ \E body \in KnownBodies : StartDrag(body)
    \/ MouseMove
    \/ MouseUp
    \/ ResetGame
    \/ \E v \in Viewports : HandleResize(v[1], v[2]) /\ UNCHANGED schedule
    \/ EnterEditMode
    \/ ExitEditMode
    \/ ClearAll

Spec == Init /\ [][Next]_vars

----------------------------------------------------------------------------
(* The listeners that run handleResize (lines 375-394).  A timer that fires *)
(* runs handleResize on the window size of that moment.  Timer ids are the  *)
(* numbers 1, 2, ... in the order of the setTimeout calls of line 391.      *)

\* mutant: the pending timer is not cleared
ClearedTimersNone == timers

\* the debounce timers left after clearTimeout(resizeTimeout) (line 390)
ClearedTimers == timers \ {resizeTimeout}

\* the resize listener (lines 389-394)
ResizeEvent ==
    /\ resizeTimeout < MaxResizeEvents
    /\ timers' = ClearedTimers \cup {resizeTimeout + 1}
    /\ resizeTimeout' = resizeTimeout + 1
    /\ resizeBursts' = IF timers = {} THEN resizeBursts + 1 ELSE resizeBursts
    /\ lastCall' = NoCall
    /\ UNCHANGED <<game, settleTimers, reapplyTimers, resizeRuns, removeTimers>>

\* the callback of the debounce timer k (lines 391-393)
FireResizeTimeout(k, w, h) ==
    /\ k \in timers
    /\ timers' = timers \ {k}
    /\ HandleResize(w, h)
    /\ resizeRuns' = resizeRuns + 1
    /\ UNCHANGED <<resizeTimeout, settleTimers, reapplyTimers, resizeBursts>>

\* the orientationchange listener (lines 376-385)
OrientationChange ==
    /\ settleTimers + reapplyTimers < MaxOrientationTimers
    /\ settleTimers' = settleTimers + 1
    /\ lastCall' = NoCall
    /\ UNCHANGED <<game, resizeTimeout, timers, reapplyTimers, resizeBursts,
                   resizeRuns, removeTimers>>

\* the callback of a 500 ms timer (lines 378-384)
FireSettleTimer(w, h) ==
    /\ settleTimers > 0
    /\ settleTimers' = settleTimers - 1
    /\ HandleResize(w, h)
    /\ reapplyTimers' = reapplyTimers + 1
    /\ UNCHANGED <<resizeTimeout, timers, resizeBursts, resizeRuns>>

\* the callback of a 100 ms timer (lines 381-383)
FireReapplyTimer(w, h) ==
    /\ reapplyTimers > 0
    /\ reapplyTimers' = reapplyTimers - 1
    /\ HandleResize(w, h)
    /\ UNCHANGED <<resizeTimeout, timers, settleTimers, resizeBursts,
                   resizeRuns>>

NextResize ==
    \/ ResizeEvent
    \/ \E k \in 1..MaxResizeEvents : \E v \in WindowSizes :
          FireResizeTimeout(k, v[1], v[2])
    \/ OrientationChange
    \/ \E v \in WindowSizes : FireSettleTimer(v[1], v[2])
    \/ \E v \in WindowSizes : FireReapplyTimer(v[1], v[2])

\* a timer that stays set fires: each callback is weakly fair
SpecResize ==
    /\ Init
    /\ [][NextResize]_vars
    /\ \A k \in 1..MaxResizeEvents :
          WF_vars(\E v \in WindowSizes : FireResizeTimeout(k, v[1], v[2]))
    /\ WF_vars(\E v \in WindowSizes : FireSettleTimer(v[1], v[2]))
    /\ WF_vars(\E v \in WindowSizes : FireReapplyTimer(v[1], v[2]))

----------------------------------------------------------------------------
(* The fixed-canvas variant (lines 628-779).  Its state has the names of    *)
(* the variant above: ball and sling (const, lines 672 and 680),            *)
(* ballLaunched (line 722), the world, the mouse constraint; SpecFixed      *)
(* reads the variables as those.  ballPos and velocity are those of the     *)
(* body `ball` refers to.  The bodies resetGame creates get the ids 2, 3,   *)
(* ...; no variable of the source refers to them.  The window keeps the     *)
(* height of InitialViewport; the resize listener (lines 658-663) sets the  *)
(* size of the canvas only.  The variables that have no counterpart in     *)
(* this variant (gameDimensions, initialPull, isEditMode, the listeners'    *)
(* timers) keep their initial values.                                       *)

\* { x: 150, y: window.innerHeight - 200 } (lines 672, 681, 730-731, 745, 753)
FixedAnchor == [x |-> 150, y |-> InitialViewport[2] - 200]

\* the velocity of lines 729-732, in 1/1000 pixel per step (0.1 is 100)
FixedVelocity(pos) ==
    [ set |-> TRUE,
      x   |-> (pos.x - FixedAnchor.x) * 100,
      y   |-> (pos.y - FixedAnchor.y) * 100 ]

\* Bodies.rectangle(...) of lines 695-703 for loop indices i, j
FixedNewBlock(i, j) ==
    [ x       |-> InitialViewport[1] - 300 + j * 50 + i * 25,
      y       |-> InitialViewport[2] - 100 - i * 50,
      color   |-> i,
      inWorld |-> TRUE ]

\* the pyramid of lines 693-706, all of it added to the world (line 719)
FixedBlocks ==
    [ k \in 1..4 |-> FixedNewBlock(0, k - 1) ]
      \o [ k \in 1..3 |-> FixedNewBlock(1, k - 1) ]
      \o [ k \in 1..2 |-> FixedNewBlock(2, k - 1) ]
      \o [ k \in 1..1 |-> FixedNewBlock(3, k - 1) ]

\* the guard of the enddrag handler (line 726)
FixedEndDragGuard(body) == body = ball /\ ~ballLaunched

\* lines 643-722
InitFixed ==
    /\ gameDimensions = getGameDimensions(InitialViewport[1], InitialViewport[2])
    /\ ground = [x |-> InitialViewport[1] \div 2, y |-> InitialViewport[2] - 10,
                 width |-> InitialViewport[1]]
    /\ ball = 1
    /\ sling = 1
    /\ ballPos = FixedAnchor
    /\ slingPointA = FixedAnchor
    /\ velocity = NoVelocity
    /\ blocks = FixedBlocks
    /\ worldBalls = {1}
    /\ worldSlings = {1}
    /\ mcBody = NullBody
    /\ mcBodyB = NullBody
    /\ ballLaunched = FALSE
    /\ initialPull = NullPull
    /\ isEditMode = FALSE
    /\ nextId = 2
    /\ launchCount = 0
    /\ launchedBy = "none"
    /\ lastCall = NoCall
    /\ resizeTimeout = 0
    /\ timers = {}
    /\ settleTimers = 0
    /\ reapplyTimers = 0
    /\ resizeBursts = 0
    /\ resizeRuns = 0
    /\ removeTimers = 0

\* what no statement of the fixed-canvas variant assigns
fixedConst == <<gameDimensions, ground, ball, sling, slingPointA, blocks,
                initialPull, isEditMode, schedule>>

\* the physics engine moves the body `ball` refers to while it is in the world
FixedTick(d) ==
    /\ ball \in worldBalls
    /\ d \in Reach
    /\ ballPos' = [x |-> FixedAnchor.x + d.x, y |-> FixedAnchor.y + d.y]
    /\ ballPos' /= ballPos
    /\ lastCall' = NoCall
    /\ UNCHANGED <<fixedConst, velocity, worldBalls, worldSlings, mcBody,
                   mcBodyB, ballLaunched, nextId, launchCount, launchedBy,
                   removeTimers>>

\* the mouse constraint picks up a body of the world (no handler listens)
FixedStartDrag(body) ==
    /\ body \in worldBalls \cup {BlockBody}
    /\ mcBodyB = NullBody
    /\ mcBody' = body
    /\ mcBodyB' = body
    /\ lastCall' = NoCall
    /\ UNCHANGED <<fixedConst, ballPos, velocity, worldBalls, worldSlings,
                   ballLaunched, nextId, launchCount, launchedBy, removeTimers>>

\* enddrag (lines 725-740): the mouse constraint lets the body go and
\* triggers the event with it
FixedMouseUp ==
    /\ mcBody /= NullBody
    /\ mcBody' = NullBody
    /\ mcBodyB' = NullBody
    /\ IF FixedEndDragGuard(mcBody)
       THEN /\ ballLaunched' = TRUE
            /\ velocity' = FixedVelocity(ballPos)
            /\ removeTimers' = removeTimers + 1
            /\ launchCount' = launchCount + 1
            /\ launchedBy' = "release"
       ELSE UNCHANGED <<ballLaunched, velocity, removeTimers, launchCount,
                        launchedBy>>
    /\ lastCall' = NoCall
    /\ UNCHANGED <<fixedConst, ballPos, worldBalls, worldSlings, nextId>>

\* the callback of the 100 ms timer (lines 736-738)
FixedRemoveSling ==
    /\ removeTimers > 0
    /\ removeTimers' = removeTimers - 1
    /\ worldSlings' = worldSlings \ {sling}
    /\ lastCall' = NoCall
    /\ UNCHANGED <<fixedConst, ballPos, velocity, worldBalls, mcBody, mcBodyB,
                   ballLaunched, nextId, launchCount, launchedBy>>

\* resetGame (lines 743-762), run by the 'r' key (lines 765-769); `ball`
\* and `sling` are const and keep referring to the first ball and sling
FixedResetGame ==
    /\ nextId <= MaxBalls
    /\ worldBalls' = (worldBalls \ {ball}) \cup {nextId}
    /\ worldSlings' = worldSlings \cup {nextId}
    /\ ballLaunched' = FALSE
    /\ nextId' = nextId + 1
    /\ lastCall' = ResetCall
    /\ UNCHANGED <<fixedConst, ballPos, velocity, mcBody, mcBodyB, launchCount,
                   launchedBy, removeTimers>>

NextFixed ==
    \/ \E d \in Offsets \cup FlightOffsets : FixedTick(d)
    \/ \E body \in KnownBodies : FixedStartDrag(body)
    \/ FixedMouseUp
    \/ FixedRemoveSling
    \/ FixedResetGame

SpecFixed == InitFixed /\ [][NextFixed]_vars

----------------------------------------------------------------------------
(* Claims *)

\* what the world shows of the current ball's launch
SlingInWorld == sling \in worldSlings

\* a step that performs the launch transition
LaunchStep == launchCount' = launchCount + 1

\* C1: the launch transition happens at most once per projectile instance:
\* launchCount never exceeds 1; once the current ball is launched, no step
\* that keeps the same ball assigns a velocity or clears ballLaunched
\* (so neither a later enddrag nor a later mousemove launches again); and
\* ballLaunched goes from true to false only in a step of resetGame (the
\* reset key/button, or toggleEditMode(false), which calls it).
C1_LaunchAtMostOnce ==
    /\ [](launchCount <= 1)
    /\ [][ (ballLaunched /\ ball' = ball)
             => (ballLaunched' /\ velocity' = velocity
                 /\ launchCount' = launchCount) ]_vars
    /\ [][ (ballLaunched /\ ~ballLaunched')
             => ((ResetGame \/ ExitEditMode) /\ ball' /= ball) ]_vars

\* C1 witness: the ball was launched by the overshoot path while it was held
\* (mouseConstraint.body stayed the ball), and the enddrag for that ball has
\* since been delivered (only that clears mouseConstraint.body without a
\* reset): one launch is counted.
C1_Witness ==
    /\ launchedBy = "overshoot"
    /\ mcBody = NullBody
    /\ ballLaunched
    /\ launchCount = 1

\* C2: on a mousemove tick with the current ball held and not launched, the
\* overshoot launch fires iff the pull sign captured for the gesture (the
\* one kept in initialPull after the tick) has x /= 0 and x differs from the
\* sign of ball.x - anchor.x; no y sign enters the condition.
C2_OvershootIffHorizontalFlip ==
    [][ (MouseMove /\ ~ballLaunched /\ mcBody = ball)
          => /\ initialPull'.set
             /\ ballLaunched' <=>
                  ( /\ initialPull'.x /= 0
                    /\ initialPull'.x /= Sign(ballPos.x - gameDimensions.slingX) ) ]_vars

\* C2 witness: the overshoot path fired at a position whose vertical sign is
\* still the captured one (only the horizontal sign flipped).
C2_Witness ==
    /\ launchedBy = "overshoot"
    /\ initialPull.set
    /\ initialPull.x /= Sign(ballPos.x - gameDimensions.slingX)
    /\ initialPull.y = Sign(ballPos.y - gameDimensions.baseHeight)
    /\ initialPull.y /= 0

\* C3: when the pull sign captured for the gesture has x = 0, a mousemove
\* tick never launches: ballLaunched, the velocity and the slings in the
\* world are as before; and the enddrag for the current, unlaunched ball
\* then launches it (flag set, velocity assigned, sling out of the world).
C3_VerticalPullOnlyReleaseLaunches ==
    /\ [][ (MouseMove /\ ~ballLaunched /\ initialPull'.set /\ initialPull'.x = 0)
             => ( /\ ~ballLaunched'
                  /\ velocity' = velocity
                  /\ worldSlings' = worldSlings ) ]_vars
    /\ [][ (MouseUp /\ mcBody = ball /\ ~ballLaunched
              /\ initialPull.set /\ initialPull.x = 0)
             => ( /\ ballLaunched'
                  /\ velocity'.set
                  /\ sling \notin worldSlings' ) ]_vars

\* C3 witness: a gesture whose captured sign has x = 0 ended in a launch by
\* the explicit-release path, from a position off the vertical through the
\* anchor (the ball moved sideways after the capture and did not launch).
C3_Witness ==
    /\ launchedBy = "release"
    /\ initialPull.set
    /\ initialPull.x = 0
    /\ velocity.x /= 0

\* C4 as stated: in no state is the velocity assigned while the current
\* sling is in the world, and in no state is the current sling out of the
\* world while ballLaunched is false.
C4_AtomicLaunchEverywhere ==
    /\ ~(velocity.set /\ SlingInWorld)
    /\ ~(~SlingInWorld /\ ~ballLaunched)

\* C4 amended: in no state is the velocity assigned while the current sling
\* is in the world, and in no state outside edit mode is the current sling
\* out of the world while ballLaunched is false (toggleEditMode(true)
\* removes the sling and leaves ballLaunched false).
C4_AtomicLaunchOutsideEditMode ==
    /\ ~(velocity.set /\ SlingInWorld)
    /\ ~isEditMode => ~(~SlingInWorld /\ ~ballLaunched)

\* C4 witness: outside edit mode the explicit-release path has launched the
\* ball: flag, velocity and sling removal are all visible.
C4_Witness ==
    /\ ~isEditMode
    /\ launchedBy = "release"
    /\ ballLaunched
    /\ velocity.set
    /\ ~SlingInWorld

\* C5: outside edit mode the world holds exactly the current sling while
\* ballLaunched is false and no sling while it is true.
C5_OneSlingIffUnlaunched ==
    ~isEditMode =>
        /\ sling = ball
        /\ worldSlings = IF ballLaunched THEN {} ELSE {sling}

\* the displacement of the ball from the anchor of the current gameDimensions
Displacement ==
    [ x |-> ballPos.x - gameDimensions.slingX,
      y |-> ballPos.y - gameDimensions.baseHeight ]

\* the square of the stretch distance
StretchSq == Displacement.x * Displacement.x + Displacement.y * Displacement.y

\* the stretch exceeds CAP/K: stretch * 0.002 > 0.3
BeyondCap == 4 * StretchSq > 300 * 300

\* the square of a speed, in units of 1/10 pixel per step (the
\* velocities of the model are multiples of 100)
SpeedSq(v) == (v.x \div 100) * (v.x \div 100) + (v.y \div 100) * (v.y \div 100)

\* the velocity assigned for a stretch of exactly CAP/K = 150 along the x axis
CapVelocity == [set |-> TRUE, x |-> (300 \div 2) * 300, y |-> 0]

\* C6 as stated: a launch from a stretch beyond CAP/K assigns a velocity
\* whose magnitude does not exceed the one assigned at a stretch of CAP/K.
C6_SpeedSaturates ==
    [][ (LaunchStep /\ BeyondCap)
          => SpeedSq(velocity') <= SpeedSq(CapVelocity) ]_vars

\* C6 amended: the scale factor saturates, not the speed: every launch
\* assigns components of magnitude at most 0.3 times those of the
\* displacement, and from a stretch beyond CAP/K exactly -0.3 times the
\* displacement, a speed of 0.3 * stretch that exceeds the speed at CAP/K.
C6_ScaleFactorSaturates ==
    [][ LaunchStep
          => /\ velocity'.x * Sign(velocity'.x) <= 300 * Displacement.x * Sign(Displacement.x)
             /\ velocity'.y * Sign(velocity'.y) <= 300 * Displacement.y * Sign(Displacement.y)
             /\ BeyondCap
                  => /\ velocity'.x = 0 - 300 * Displacement.x
                     /\ velocity'.y = 0 - 300 * Displacement.y
                     /\ SpeedSq(velocity') > SpeedSq(CapVelocity) ]_vars

\* C6 witness: a ball launched from beyond CAP/K, faster than the speed
\* assigned at CAP/K.
C6_Witness ==
    /\ launchedBy /= "none"
    /\ velocity.set
    /\ SpeedSq(velocity) > SpeedSq(CapVelocity)

\* the velocity law for displacement d of stretch s (s * s = |d|^2):
\* -d * min(s * 0.002, 0.3), in 1/1000 pixel per step
LawVelocity(d, s) ==
    LET f == IF s * 2 <= 300 THEN s * 2 ELSE 300
    IN  [set |-> TRUE, x |-> 0 - d.x * f, y |-> 0 - d.y * f]

\* C7: wherever the ball is, the two paths compute the same velocity, and
\* every launch, by either path, assigns -d * min(|d| * 0.002, 0.3) for the
\* displacement d from the anchor (slingX, baseHeight) of the current
\* gameDimensions; each component has the opposite sign of d's.
C7_SameVelocityLaw ==
    /\ [](OvershootVelocity(ballPos, gameDimensions)
            = ReleaseVelocity(ballPos, gameDimensions))
    /\ [][ LaunchStep
             => /\ \E s \in 0..400 :
                      /\ s * s = StretchSq
                      /\ velocity' = LawVelocity(Displacement, s)
                /\ Sign(velocity'.x) = 0 - Sign(Displacement.x)
                /\ Sign(velocity'.y) = 0 - Sign(Displacement.y) ]_vars

\* C7 witness: after a resize to other dimensions the overshoot path has
\* launched the ball from a displacement with both components non-zero,
\* taken from the new anchor (the ball is still where it was launched).
C7_Witness ==
    /\ launchedBy = "overshoot"
    /\ gameDimensions /= getGameDimensions(InitialViewport[1], InitialViewport[2])
    /\ Displacement \in Offsets
    /\ Displacement.x /= 0 /\ Displacement.y /= 0
    /\ Sign(velocity.x) = 0 - Sign(Displacement.x)

\* C8: a startdrag, mousemove or enddrag that refers to a body other than
\* the current ball changes none of ballLaunched, initialPull, the velocity
\* of the current ball and the presence of the current sling in the world.
C8_StaleEventsAreNoOps ==
    [][ \/ /\ UNCHANGED <<ballLaunched, initialPull, velocity>>
           /\ (sling \in worldSlings') <=> (sling \in worldSlings)
        \/ ~( \/ \E body \in KnownBodies : body /= ball /\ StartDrag(body)
              \/ mcBody /= ball /\ MouseMove
              \/ mcBody /= ball /\ MouseUp ) ]_vars

\* C8 witness: the mouse constraint holds a replaced ball (its startdrag was
\* delivered) while the current ball hangs unlaunched in its sling.
C8_Witness ==
    /\ mcBody \in 1..(nextId - 1)
    /\ mcBody /= ball
    /\ ~ballLaunched
    /\ ~velocity.set
    /\ SlingInWorld

\* C9: handleResize leaves the position of a launched ball alone; it puts an
\* unlaunched ball and sling.pointA at the anchor (slingX, baseHeight) of
\* the new dimensions.
C9_ResizeMovesOnlyUnlaunchedBall ==
    [][ \/ IF ballLaunched
           THEN ballPos' = ballPos
           ELSE /\ ballPos' = [x |-> gameDimensions'.slingX,
                               y |-> gameDimensions'.baseHeight]
                /\ slingPointA' = ballPos'
        \/ ~(\E v \in Viewports : HandleResize(v[1], v[2])) ]_vars

\* C9 witness: a ball in flight is still where the engine put it under the
\* initial dimensions although the dimensions have since changed.
C9_Witness ==
    /\ ballLaunched
    /\ gameDimensions /= getGameDimensions(InitialViewport[1], InitialViewport[2])
    /\ \E d \in FlightOffsets :
          ballPos = [x |-> (InitialViewport[1] * 2) \div 10 + d.x,
                     y |-> InitialViewport[2] - (InitialViewport[2] * 2) \div 10 + d.y]

\* the positions of a sequence of blocks
Positions(bs) == [k \in 1..Len(bs) |-> <<bs[k].x, bs[k].y>>]

\* C10: a handleResize of the undisturbed formation of createBlocks puts
\* the block of every index where createBlocks puts that index under the
\* new dimensions.
C10_ResizeReformsFormation ==
    [][ ( /\ \E v \in Viewports : HandleResize(v[1], v[2])
          /\ Positions(blocks)
               = Positions(createBlocks(gameDimensions, <<>>, 0, TRUE)) )
          => Positions(blocks')
               = Positions(createBlocks(gameDimensions', <<>>, 0, TRUE)) ]_vars

\* C11: a handleResize that directly follows a handleResize for the same
\* window size (w, h) leaves the ground, the ball, sling.pointA and every
\* block where the first call put them.
C11_ResizeTwiceSameAsOnce ==
    [][ \/ /\ UNCHANGED <<gameDimensions, ground, ballPos, slingPointA>>
           /\ Positions(blocks') = Positions(blocks)
        \/ ~( /\ lastCall.op = "handleResize"
              /\ HandleResize(lastCall.w, lastCall.h) ) ]_vars

\* C11 witness: handleResize has just run for a window size other than the
\* initial one, on an unlaunched ball and a formation of 10 blocks (the
\* state between the two calls).
C11_Witness ==
    /\ lastCall.op = "handleResize"
    /\ <<lastCall.w, lastCall.h>> /= InitialViewport
    /\ ~ballLaunched
    /\ ballPos = Anchor(gameDimensions)
    /\ slingPointA = Anchor(gameDimensions)
    /\ Len(blocks) = 10

\* C12: a handleResize that finds a window width or height that is not
\* positive changes none of gameDimensions, the ground, the ball position,
\* sling.pointA and the block positions.
C12_NonPositiveResizeIsNoOp ==
    [][ \/ /\ UNCHANGED <<gameDimensions, ground, ballPos, slingPointA>>
           /\ Positions(blocks') = Positions(blocks)
        \/ ~( \E v \in WindowSizes :
                 /\ v[1] <= 0 \/ v[2] <= 0
                 /\ HandleResize(v[1], v[2]) ) ]_vars

\* what a player can observe of the state resetGame leaves
ResetObservable ==
    [ ballAtAnchor |-> ballPos = Anchor(gameDimensions),
      ballInWorld  |-> ball \in worldBalls,
      slingInWorld |-> sling \in worldSlings /\ sling = ball,
      ballLaunched |-> ballLaunched,
      initialPull  |-> initialPull,
      blocks       |-> blocks,
      worldBalls   |-> Cardinality(worldBalls),
      worldSlings  |-> Cardinality(worldSlings) ]

\* C13: a resetGame that directly follows a resetGame leaves the observable
\* state of the first: the ball at the anchor, its sling, ballLaunched,
\* initialPull, the formation, and as many bodies and constraints in the
\* world.
C13_ResetTwiceSameAsOnce ==
    [][ (lastCall.op = "resetGame" /\ ResetGame)
          => ResetObservable' = ResetObservable ]_vars

\* C14: while edit mode is active the world contains neither a projectile
\* nor a sling.
C14_EditModeWorldIsEmpty ==
    isEditMode => (worldBalls = {} /\ worldSlings = {})

\* the position of block j of row i in a sequence filled row by row with
\* rows of 4, 3, 2 and 1 blocks
RowIndex(i, j) == i * 4 - (i * (i - 1)) \div 2 + j + 1

\* bs is the formation of 10 blocks for the dimensions gd
FormationLaidOut(bs, gd) ==
    /\ Len(bs) = 10
    /\ \A i \in 0..3 : \A j \in 0..(3 - i) :
          /\ 2 * bs[RowIndex(i, j)].x
               = 2 * gd.blockBaseX + 2 * j * Spacing(gd) + i * Spacing(gd)
          /\ bs[RowIndex(i, j)].y = gd.baseHeight - i * Spacing(gd)
          /\ bs[RowIndex(i, j)].color = i
    /\ \A i \in 0..2 : \A j \in 0..(2 - i) :
          2 * bs[RowIndex(i + 1, j)].x
            = bs[RowIndex(i, j)].x + bs[RowIndex(i, j + 1)].x

\* C15: createBlocks on the empty collection yields 10 blocks in row order,
\* rows of 4, 3, 2, 1 from the bottom, block j of row i at
\* x = baseX + j*spacing + i*(spacing/2), y = baseY - i*spacing, of colour
\* index i, each block of a higher row midway between two adjacent blocks of
\* the row below; this holds of the initial formation and of every
\* formation resetGame builds from an empty collection.
C15_CreateBlocksLayout ==
    /\ [](FormationLaidOut(createBlocks(gameDimensions, <<>>, 0, TRUE),
                           gameDimensions))
    /\ [][ (Len(blocks) = 0 /\ Len(blocks') /= 0)
             => FormationLaidOut(blocks', gameDimensions) ]_vars

\* C15 witness: resetGame has rebuilt the formation under dimensions other
\* than the initial ones, and no resize has moved it since.
C15_Witness ==
    /\ gameDimensions /= getGameDimensions(InitialViewport[1], InitialViewport[2])
    /\ Len(blocks) = 10
    /\ ~blocks[1].inWorld
    /\ FormationLaidOut(blocks, gameDimensions)

\* C16: the world contains at most one projectile, and if it contains one
\* it is the body `ball` refers to.
C16_AtMostTheCurrentBall ==
    /\ Cardinality(worldBalls) <= 1
    /\ worldBalls \subseteq {ball}

\* C16 witness: in edit mode, entered after a launch, resetGame has put a
\* new projectile into the world; it is the only one.
C16_Witness ==
    /\ isEditMode
    /\ ball > 1
    /\ worldBalls = {ball}
    /\ worldSlings /= {}

\* C17: every member of the blocks collection is a body in the world.
C17_BlocksAreInWorld ==
    \A k \in 1..Len(blocks) : blocks[k].inWorld

\* C18: initialPull is null after every resetGame and after every startdrag
\* on the current ball; it is assigned only by a mousemove tick that sees
\* the current ball held and unlaunched while it is null, to the pull sign
\* of that tick; and a mousemove tick leaves an assigned initialPull, also
\* one whose x is 0, as it is.
C18_InitialPullLifecycle ==
    /\ [][ (ResetGame \/ ExitEditMode) => initialPull' = NullPull ]_vars
    /\ [][ StartDrag(ball) => initialPull' = NullPull ]_vars
    /\ [][ (initialPull' /= initialPull /\ initialPull'.set)
             => /\ MouseMove
                /\ mcBody = ball
                /\ ~ballLaunched
                /\ initialPull = NullPull
                /\ initialPull' = PullSign(ballPos, gameDimensions) ]_vars
    /\ [][ (MouseMove /\ initialPull.set) => initialPull' = initialPull ]_vars

\* C18 witness: the pull sign captured for the gesture has x = 0 and is
\* kept although the held, unlaunched ball is now off the vertical through
\* the anchor.
C18_Witness ==
    /\ initialPull.set
    /\ initialPull.x = 0
    /\ mcBody = ball
    /\ ~ballLaunched
    /\ initialPull /= PullSign(ballPos, gameDimensions)

C20_PointAIsTheAnchor ==
    (SlingInWorld /\ ~ballLaunched) => slingPointA = Anchor(gameDimensions)

\* C20 witness: a ball was launched, the window was resized while it flew
\* (sling.pointA was not updated then), and resetGame has since hung a new
\* ball in a sling fixed at the anchor of the new dimensions; the ball is
\* being pulled.
C20_Witness ==
    /\ ball > 1
    /\ SlingInWorld
    /\ ~ballLaunched
    /\ gameDimensions /= getGameDimensions(InitialViewport[1], InitialViewport[2])
    /\ slingPointA = Anchor(gameDimensions)
    /\ ballPos /= slingPointA

\* C21: in the fixed-canvas variant no state has ballLaunched true and the
\* velocity assigned while the sling is in the world.
C21_FixedLaunchRemovesSling ==
    ~(ballLaunched /\ velocity.set /\ sling \in worldSlings)

\* C22: in the fixed-canvas variant an enddrag on the ball the last
\* resetGame created, while ballLaunched is false, sets ballLaunched and
\* schedules the removal of the sling; and resetGame leaves exactly one
\* ball and one sling in the world.
C22_FixedResetRearms ==
    /\ [][ ( /\ FixedMouseUp
             /\ nextId > 2
             /\ mcBody = nextId - 1
             /\ ~ballLaunched )
             => (ballLaunched' /\ removeTimers' = removeTimers + 1) ]_vars
    /\ [](lastCall.op = "resetGame"
            => (Cardinality(worldBalls) = 1 /\ Cardinality(worldSlings) = 1))

====
